---------------------------- MODULE Spec2Model ----------------------------
(***************************************************************************)
(* Model of the two experiment sweeps of the repository:                   *)
(*   src/train_cub.py                        ("train_cub")                 *)
(*   src/experiments/cub_emb_size_ablation.py ("ablation")                 *)
(* Each script parses its command line, builds a base configuration,       *)
(* loads the data, optionally dumps the test/validation arrays, and then   *)
(* loops over splits (and embedding sizes), building one configuration per *)
(* model variant, calling the training library, recording statistics and   *)
(* serializing the results mapping.                                        *)
(*                                                                         *)
(* Configuration mappings carry the keys the scripts read or assign; the   *)
(* remaining hyperparameters (max_epochs, patience, ...) are copied from   *)
(* the base configuration unchanged and are left out.  project_name,       *)
(* single_frequency_epochs, n_tasks, imbalance and the three data loaders  *)
(* are passed through to the library untouched and are left out as well.   *)
(***************************************************************************)
EXTENDS Integers, Sequences, FiniteSets, TLC

VARIABLES
    script,          \* which of the two scripts runs
    args,            \* argparse namespace after parse_args()
    pc,              \* position of the (single) thread of the script
    err,             \* exception that left the script, "" while none
    data_module,     \* main(data_module=...)            (train_cub only)
    rerun,           \* main(rerun=...)
    result_dir,      \* main(result_dir=...)
    activation_freq, \* main(activation_freq=...)
    og_config,       \* base configuration of main()
    n_concepts,      \* number of concepts of the data set
    files,           \* files and directories created by this run
    split,           \* loop variable of "for split in range(cv)"
    ei,              \* index into EmbSizes of the inner loop (ablation)
    vi,              \* index of the model variant within the loop body
    config,          \* the local "config" of the loop body
    call,            \* arguments of the latest call into training.train_*
    active,          \* number of training calls that have not returned
    pending,         \* models returned by training and not yet recorded
    results,         \* the local "results" mapping
    disk,            \* content of results.joblib: <<>> or <<mapping>>
    nLoad,           \* number of generate_data() calls
    nTrain,          \* number of training calls started
    nStats,          \* number of update_statistics() calls completed
    nDumps,          \* number of joblib.dump() calls completed
    trained          \* identities of the training calls started

vars == << script, args, pc, err, data_module, rerun, result_dir,
           activation_freq, og_config, n_concepts, files, split, ei, vi,
           config, call, active, pending, results, disk,
           nLoad, nTrain, nStats, nDumps, trained >>

---------------------------------------------------------------------------
(* Bounds of the model *)

\* -p values are drawn from 0..MaxVal (so cv, emb_size, ... in 0..MaxVal)
MaxVal == 2
\* the data set has 1..MaxConcepts concepts
MaxConcepts == 2

---------------------------------------------------------------------------
(* Python values *)

None == <<>>
Some(v) == <<v>>

\* a dict as a function; d[k] = v on a dict
SetKey(d, k, v) == [x \in (DOMAIN d) \cup {k} |-> IF x = k THEN v ELSE d[x]]

\* the empty dict
EmptyDict == [x \in {} |-> 0]

\* str.format(ds_name=...) on the output directories of the model
Format(s, ds) == IF s = "out/{ds_name}/" THEN "out/" \o ds \o "/" ELSE s

---------------------------------------------------------------------------
(* Command line *)

Scripts == {"train_cub", "ablation"}

\* choices of the positional argument 'dataset'
DatasetChoices == {"cub", "celeba", "xor", "trig", "vec", "dot"}

\* names bound at module level of train_cub.py when __main__ runs
ModuleNames ==
    {"argparse", "copy", "joblib", "logging", "np", "os", "torch", "Path",
     "seed_everything", "cub_data_module", "training", "utils",
     "get_synthetic_data_loader", "get_synthetic_num_features",
     "CUB_CONFIG", "main"}

\* keys a -p option names in the model, each with an integer value
ParamKeys == {"cv", "emb_size", "extra_dims", "num_workers",
              "concept_loss_weight"}
ParamVals == 0 .. MaxVal
\* args.param: no -p option, or one -p option
ParamLists == {<<>>} \cup {<<p>> : p \in ParamKeys \X ParamVals}

\* values of --output_dir: not given (argparse default), or a path
OutputDirs(s) ==
    IF s = "train_cub"
    THEN {None, Some(""), Some("out/"), Some("out/{ds_name}/")}
    ELSE {Some("results/cub_emb_size_ablation/"), Some(""), Some("out/")}

\* the namespaces parse_args() can return
ArgSpace(s) ==
    [dataset         : IF s = "train_cub" THEN DatasetChoices ELSE {"cub"},
     output_dir      : OutputDirs(s),
     rerun           : BOOLEAN,
     activation_freq : {0, 1},
     num_workers     : {8},
     param           : ParamLists]

---------------------------------------------------------------------------
(* Base configurations *)

CUB_CONFIG ==
    [cv |-> 5, emb_size |-> 16, extra_dims |-> 0, concept_loss_weight |-> 5,
     bool |-> FALSE, sigmoidal_prob |-> FALSE,
     training_intervention_prob |-> "0.0", embeding_activation |-> "None"]

\* og_config = dict(...) of the ablation script
AblationConfig(num_workers) ==
    [cv |-> 5, num_workers |-> num_workers, emb_size |-> 16,
     extra_dims |-> 0, concept_loss_weight |-> 5, bool |-> FALSE,
     shared_prob_gen |-> FALSE, sigmoidal_prob |-> FALSE,
     sigmoidal_embedding |-> FALSE, training_intervention_prob |-> "0.0",
     embeding_activation |-> "None", concat_prob |-> FALSE]

\* utils.extend_with_global_params(config, global_params): every
\* (name, value) pair is assigned in order, so a later pair wins
RECURSIVE extend_with_global_params(_, _)
extend_with_global_params(cfg, ps) ==
    IF ps = <<>> THEN cfg
    ELSE extend_with_global_params(SetKey(cfg, Head(ps)[1], Head(ps)[2]),
                                   Tail(ps))

\* variant: num_workers assigned after the -p parameters are applied
TrainCubBaseConfig_WorkersLast(num_workers, global_params) ==
    SetKey(extend_with_global_params(
               extend_with_global_params(CUB_CONFIG, global_params),
               global_params),
           "num_workers", num_workers)

\* og_config of train_cub.main after its two extend calls
TrainCubBaseConfig(num_workers, global_params) ==
    extend_with_global_params(
        extend_with_global_params(
            SetKey(CUB_CONFIG, "num_workers", num_workers), global_params),
        global_params)

\* og_config of the ablation main after its extend call
AblationBaseConfig(num_workers, global_params) ==
    extend_with_global_params(AblationConfig(num_workers), global_params)

---------------------------------------------------------------------------
(* __main__ of train_cub.py: the dispatch on args.dataset *)

Raise(e) == [kind |-> "raise", error |-> e, data_module |-> "",
             output_dir |-> None]
CallMain(dm, od) == [kind |-> "main", error |-> "", data_module |-> dm,
                     output_dir |-> od]

\* evaluating global names: NameError when one is not bound
Bound(names) == names \subseteq ModuleNames

\* "if args.output_dir is None: args.output_dir = f'results/{args.dataset}/'"
DefaultOutputDir(od, ds) ==
    IF od = None THEN Some("results/" \o ds \o "/") ELSE od

\* the branch of a data set with its own loader module and base config:
\* both names are evaluated, then args.output_dir.format(ds_name=...) is
\* called, and None has no attribute 'format'
LoaderBranch(a, dm, cfg) ==
    IF ~Bound({dm, cfg}) THEN Raise("NameError")
    ELSE IF a.output_dir = None THEN Raise("AttributeError")
    ELSE CallMain(dm, DefaultOutputDir(
                          Some(Format(a.output_dir[1], a.dataset)),
                          a.dataset))

\* the branch of the synthetic data sets
SyntheticBranch(a) ==
    IF ~Bound({"get_synthetic_data_loader", "get_synthetic_num_features",
               "SYNTH_CONFIG"})
    THEN Raise("NameError")
    ELSE CallMain("synthetic_" \o a.dataset,
                  DefaultOutputDir(a.output_dir, a.dataset))

TrainCubDispatch(a) ==
    IF a.dataset = "cub"
    THEN LoaderBranch(a, "cub_data_module", "CUB_CONFIG")
    ELSE IF a.dataset = "celeba"
    THEN LoaderBranch(a, "celeba_data_module", "CELEBA_CONFIG")
    ELSE IF a.dataset \in {"xor", "vector", "dot", "trig"}
    THEN SyntheticBranch(a)
    ELSE Raise("ValueError: Unsupported dataset")

\* __main__ of the ablation script calls main() directly
AblationDispatch(a) == CallMain("cub_data_module", a.output_dir)

Dispatch(s, a) ==
    IF s = "train_cub" THEN TrainCubDispatch(a) ELSE AblationDispatch(a)

---------------------------------------------------------------------------
(* The loop body: one configuration per model variant *)

\* "for emb_size in [1, 2, 4, 6, 8, 16, 32, 64]" of the ablation script
EmbSizes == <<1, 2, 4, 6, 8, 16, 32, 64>>

\* a run of "config[k] = v" statements, in order
RECURSIVE Assign(_, _)
Assign(d, kvs) ==
    IF kvs = <<>> THEN d
    ELSE Assign(SetKey(d, Head(kvs)[1], Head(kvs)[2]), Tail(kvs))

\* variant: the 1-based number of the progress message as the key
SplitKey_OneBased(s) == ToString(s + 1)

\* f'{split}', the key of a split in results
SplitKey(s) == ToString(s)

\* os.path.join(a, b) for the directories of the model, which are empty or
\* end in "/"
PathJoin(a, b) == a \o b

\* variant: "emb_size * n_concepts"
ExtraCapacityDims_Whole(emb_size, n) == emb_size * n

\* "(emb_size - 1) * n_concepts", the extra_dims of the extra-capacity
\* variants
ExtraCapacityDims(emb_size, n) == (emb_size - 1) * n

\* variant: the last variant of train_cub.py is left out
NumVariants_OneLess(s) == IF s = "train_cub" THEN 6 ELSE 3

\* number of training calls in one pass of the loop body
NumVariants(s) == IF s = "train_cub" THEN 7 ELSE 3

\* the library function variant v is trained with
TrainFn(s, v) ==
    IF s = "train_cub" /\ v = 6
    THEN "train_independent_and_sequential_model"
    ELSE "train_model"

\* number of (model, test_results) pairs the call returns
ModelsReturned(fn) ==
    IF fn = "train_independent_and_sequential_model" THEN 2 ELSE 1

\* the assignments train_cub.py makes to the copy of og_config for its
\* v-th variant, in order
TrainCubSettings(v, og, n) ==
    CASE v = 1 ->
        << <<"architecture", "ConceptEmbeddingModel">>,
                      <<"extra_name", "">>,
                      <<"sigmoidal_prob", TRUE>>,
                      <<"training_intervention_prob", "0.25">>,
                      <<"emb_size", og["emb_size"]>>,
                      <<"embeding_activation", "leakyrelu">> >>
      [] v = 2 ->
        << <<"architecture", "ConceptEmbeddingModel">>,
                      <<"extra_name", "NoRandInt">>,
                      <<"sigmoidal_prob", TRUE>>,
                      <<"training_intervention_prob", "0.0">>,
                      <<"emb_size", og["emb_size"]>>,
                      <<"embeding_activation", "leakyrelu">> >>
      [] v = 3 ->
        << <<"architecture", "ConceptBottleneckModel">>,
                      <<"bool", FALSE>>,
                      <<"extra_dims",
                        ExtraCapacityDims(og["emb_size"], n)>>,
                      <<"extra_name", "FuzzyExtraCapacity_Logit">>,
                      <<"bottleneck_nonlinear", "leakyrelu">>,
                      <<"sigmoidal_extra_capacity", FALSE>>,
                      <<"sigmoidal_prob", FALSE>> >>
      [] v = 4 ->
        << <<"architecture", "ConceptBottleneckModel">>,
                      <<"extra_name", "Fuzzy">>,
                      <<"bool", FALSE>>,
                      <<"extra_dims", 0>>,
                      <<"sigmoidal_extra_capacity", FALSE>>,
                      <<"sigmoidal_prob", TRUE>> >>
      [] v = 5 ->
        << <<"architecture", "ConceptBottleneckModel">>,
                      <<"extra_name", "Bool">>,
                      <<"bool", TRUE>> >>
      [] v = 6 ->
        << <<"architecture", "ConceptBottleneckModel">>,
                      <<"extra_name", "">>,
                      <<"sigmoidal_prob", TRUE>> >>
      [] OTHER ->
        << <<"architecture", "ConceptBottleneckModel">>,
                      <<"extra_name",
                        "NoConceptSupervisionReLU_ExtraCapacity">>,
                      <<"bool", FALSE>>,
                      <<"extra_dims",
                        ExtraCapacityDims(og["emb_size"], n)>>,
                      <<"bottleneck_nonlinear", "leakyrelu">>,
                      <<"concept_loss_weight", 0>> >>

\* the assignments the ablation script makes for its v-th variant
AblationSettings(v, emb_size, n) ==
    CASE v = 1 ->
        << <<"architecture", "MixtureEmbModel">>,
                      <<"extra_name",
                        "SharedProb_AdaptiveDropout_NoProbConcat_emb_size_"
                            \o ToString(emb_size)>>,
                      <<"shared_prob_gen", TRUE>>,
                      <<"sigmoidal_prob", FALSE>>,
                      <<"sigmoidal_embedding", FALSE>>,
                      <<"training_intervention_prob", "0.25">>,
                      <<"concat_prob", FALSE>>,
                      <<"emb_size", emb_size>>,
                      <<"embeding_activation", "leakyrelu">> >>
      [] v = 2 ->
        << <<"architecture", "ConceptBottleneckModel">>,
                      <<"bool", FALSE>>,
                      <<"extra_dims", ExtraCapacityDims(emb_size, n)>>,
                      <<"extra_name",
                        "FuzzyExtraCapacity_Logit_emb_size_"
                            \o ToString(emb_size)>>,
                      <<"bottleneck_nonlinear", "leakyrelu">>,
                      <<"sigmoidal_extra_capacity", FALSE>>,
                      <<"sigmoidal_prob", FALSE>>,
                      <<"emb_size", emb_size>> >>
      [] OTHER ->
        << <<"architecture", "ConceptBottleneckModel">>,
                      <<"extra_name",
                        "NoConceptSupervisionReLU_ExtraCapacity_emb_size_"
                            \o ToString(emb_size)>>,
                      <<"bool", FALSE>>,
                      <<"extra_dims", ExtraCapacityDims(emb_size, n)>>,
                      <<"bottleneck_nonlinear", "leakyrelu">>,
                      <<"concept_loss_weight", 0>>,
                      <<"emb_size", emb_size>> >>

VariantSettings(s, v, og, emb_size, n) ==
    IF s = "train_cub" THEN TrainCubSettings(v, og, n)
    ELSE AblationSettings(v, emb_size, n)

\* config = copy.deepcopy(og_config) followed by the variant's assignments
VariantConfig(s, v, og, emb_size, n) ==
    Assign(og, VariantSettings(s, v, og, emb_size, n))

\* variant: rerun is not passed on, so the library's default applies
TrainCall_DefaultRerun(fn, cfg) ==
    [fn |-> fn, config |-> cfg, n_concepts |-> n_concepts, split |-> split,
     result_dir |-> result_dir, rerun |-> FALSE, seed |-> split,
     activation_freq |-> activation_freq]

\* the keyword arguments of training.train_model(...) and of
\* training.train_independent_and_sequential_model(...)
TrainCall(fn, cfg) ==
    [fn |-> fn, config |-> cfg, n_concepts |-> n_concepts, split |-> split,
     result_dir |-> result_dir, rerun |-> rerun, seed |-> split,
     activation_freq |-> activation_freq]

NoCall ==
    [fn |-> "none", config |-> EmptyDict, n_concepts |-> 0, split |-> 0,
     result_dir |-> "", rerun |-> FALSE, seed |-> 0, activation_freq |-> 0]

\* variant: "if activation_freq:"
DumpsActivations_FreqOnly == activation_freq # 0

\* the identity of a run: what tells its files in result_dir and its
\* statistics in a results entry apart from those of the other runs
RunIdentity(cfg, s) ==
    [architecture |-> cfg["architecture"], extra_name |-> cfg["extra_name"],
     split |-> s]

\* "if result_dir and activation_freq:"
DumpsActivations == result_dir # "" /\ activation_freq # 0

\* out_acts_save_dir
ActsDir == PathJoin(result_dir, "test_embedding_acts/")

\* the three arrays saved for one data set
ActsFiles(name) ==
    {PathJoin(ActsDir, a \o "_" \o name \o ".npy") : a \in {"x", "y", "c"}}

ResultsFile == PathJoin(result_dir, "results.joblib")

\* og_config["cv"]
Cv == og_config["cv"]

\* the entry of results the current pass of the loop body fills
CurrentEntry ==
    IF script = "train_cub" THEN results[SplitKey(split)]
    ELSE results[EmbSizes[ei]][SplitKey(split)]

\* training.update_statistics(entry, config, model, test_results): the
\* entry gains the statistics of the run, with the configuration values
\* that identify it
update_statistics(entry, cfg) ==
    Append(entry, [architecture |-> cfg["architecture"],
                   extra_name |-> cfg["extra_name"],
                   emb_size |-> cfg["emb_size"]])

\* results with the current entry replaced by e
WithCurrentEntry(e) ==
    IF script = "train_cub" THEN SetKey(results, SplitKey(split), e)
    ELSE SetKey(results, EmbSizes[ei],
                SetKey(results[EmbSizes[ei]], SplitKey(split), e))

---------------------------------------------------------------------------
(* The scripts, step by step *)

Init ==
    /\ script \in Scripts
    /\ args \in ArgSpace(script)
    /\ pc = "cli"
    /\ err = ""
    /\ data_module = ""
    /\ rerun = FALSE
    /\ result_dir = ""
    /\ activation_freq = 0
    /\ og_config = EmptyDict
    /\ n_concepts = 0
    /\ files = {}
    /\ split = 0
    /\ ei = 1
    /\ vi = 1
    /\ config = EmptyDict
    /\ call = NoCall
    /\ active = 0
    /\ pending = 0
    /\ results = EmptyDict
    /\ disk = <<>>
    /\ nLoad = 0
    /\ nTrain = 0
    /\ nStats = 0
    /\ nDumps = 0
    /\ trained = {}

mainVars == << data_module, rerun, result_dir, activation_freq >>
loopVars == << split, ei, vi, config, call, active, pending, results, disk,
               nTrain, nStats, nDumps, trained >>

\* __main__ ends in an exception before main() is called
CliRaise ==
    /\ pc = "cli"
    /\ Dispatch(script, args).kind = "raise"
    /\ pc' = "raised"
    /\ err' = Dispatch(script, args).error
    /\ UNCHANGED << script, args, mainVars, og_config, n_concepts, files,
                    loopVars, nLoad >>

\* __main__ calls main(...)
CliCallMain ==
    /\ pc = "cli"
    /\ Dispatch(script, args).kind = "main"
    /\ pc' = "main"
    /\ data_module' = Dispatch(script, args).data_module
    /\ rerun' = args.rerun
    /\ result_dir' = Dispatch(script, args).output_dir[1]
    /\ activation_freq' = args.activation_freq
    /\ UNCHANGED << script, args, err, og_config, n_concepts, files,
                    loopVars, nLoad >>

\* main(): the base configuration
BuildConfig ==
    /\ pc = "main"
    /\ og_config' = IF script = "train_cub"
                    THEN TrainCubBaseConfig(args.num_workers, args.param)
                    ELSE AblationBaseConfig(args.num_workers, args.param)
    /\ pc' = "load"
    /\ UNCHANGED << script, args, err, mainVars, n_concepts, files,
                    loopVars, nLoad >>

\* data_module.generate_data(config=og_config, ...)
GenerateData ==
    /\ pc = "load"
    /\ \E n \in 1 .. MaxConcepts : n_concepts' = n
    /\ nLoad' = nLoad + 1
    /\ pc' = "acts"
    /\ UNCHANGED << script, args, err, mainVars, og_config, files,
                    loopVars >>

\* "if result_dir and activation_freq:" is false
SkipActivations ==
    /\ pc = "acts"
    /\ ~DumpsActivations
    /\ pc' = "sample"
    /\ UNCHANGED << script, args, err, mainVars, og_config, n_concepts,
                    files, loopVars, nLoad >>

\* Path(out_acts_save_dir).mkdir(parents=True, exist_ok=True)
MakeActsDir ==
    /\ pc = "acts"
    /\ DumpsActivations
    /\ files' = files \cup {ActsDir}
    /\ pc' = "acts_test"
    /\ UNCHANGED << script, args, err, mainVars, og_config, n_concepts,
                    loopVars, nLoad >>

\* one pass of "for (ds, name) in [(test_dl, "test"), (val_dl, "val")]"
SaveActivations ==
    /\ pc \in {"acts_test", "acts_val"}
    /\ files' = files \cup
                ActsFiles(IF pc = "acts_test" THEN "test" ELSE "val")
    /\ pc' = IF pc = "acts_test" THEN "acts_val" ELSE "sample"
    /\ UNCHANGED << script, args, err, mainVars, og_config, n_concepts,
                    loopVars, nLoad >>

\* sample = next(iter(train_dl)); the ablation script takes n_concepts from
\* the shape of the sample
InspectSample ==
    /\ pc = "sample"
    /\ IF script = "ablation"
       THEN \E n \in 1 .. MaxConcepts : n_concepts' = n
       ELSE n_concepts' = n_concepts
    /\ pc' = "makedirs"
    /\ UNCHANGED << script, args, err, mainVars, og_config, files,
                    loopVars, nLoad >>

\* os.makedirs(result_dir, exist_ok=True); results = {}
MakeResultDir ==
    /\ pc = "makedirs"
    /\ result_dir # ""
    /\ files' = files \cup {result_dir}
    /\ results' = EmptyDict
    /\ pc' = "loop"
    /\ UNCHANGED << script, args, err, mainVars, og_config, n_concepts,
                    split, ei, vi, config, call, active, pending, disk,
                    nLoad, nTrain, nStats, nDumps, trained >>

\* os.makedirs('') raises FileNotFoundError
MakeResultDirRaise ==
    /\ pc = "makedirs"
    /\ result_dir = ""
    /\ pc' = "raised"
    /\ err' = "FileNotFoundError"
    /\ UNCHANGED << script, args, mainVars, og_config, n_concepts, files,
                    loopVars, nLoad >>

\* the head of the loop(s): the entry of results for this pass
LoopHead ==
    /\ pc = "loop"
    /\ split < Cv
    /\ results' =
         IF script = "train_cub"
         THEN SetKey(results, SplitKey(split), <<>>)
         ELSE LET e == EmbSizes[ei]
                  r1 == IF e \in DOMAIN results THEN results
                        ELSE SetKey(results, e, EmptyDict)
              IN IF SplitKey(split) \in DOMAIN r1[e] THEN r1
                 ELSE SetKey(r1, e, SetKey(r1[e], SplitKey(split), <<>>))
    /\ vi' = 1
    /\ pc' = "variant"
    /\ UNCHANGED << script, args, err, mainVars, og_config, n_concepts,
                    files, split, ei, config, call, active, pending, disk,
                    nLoad, nTrain, nStats, nDumps, trained >>

\* range(cv) is exhausted: "return results"
Return ==
    /\ pc = "loop"
    /\ split >= Cv
    /\ pc' = "returned"
    /\ UNCHANGED << script, args, err, mainVars, og_config, n_concepts,
                    files, loopVars, nLoad >>

\* config = copy.deepcopy(og_config); config[...] = ...; the call into
\* the training library
InvokeTraining ==
    /\ pc = "variant"
    /\ LET cfg == VariantConfig(script, vi, og_config, EmbSizes[ei],
                                n_concepts)
       IN /\ config' = cfg
          /\ call' = TrainCall(TrainFn(script, vi), cfg)
          /\ trained' = trained \cup {RunIdentity(cfg, split)}
    /\ active' = active + 1
    /\ nTrain' = nTrain + 1
    /\ pc' = "training"
    /\ UNCHANGED << script, args, err, mainVars, og_config, n_concepts,
                    files, split, ei, vi, pending, results, disk,
                    nLoad, nStats, nDumps >>

\* the training call returns its model(s) and test results
TrainReturn ==
    /\ pc = "training"
    /\ active' = active - 1
    /\ pending' = ModelsReturned(call.fn)
    /\ pc' = "stats"
    /\ UNCHANGED << script, args, err, mainVars, og_config, n_concepts,
                    files, split, ei, vi, config, call, results, disk,
                    nLoad, nTrain, nStats, nDumps, trained >>

\* variant: the results are dumped on the way out of a failed call
TrainRaise_DumpOnFailure ==
    /\ pc = "training"
    /\ active' = active - 1
    /\ pc' = "raised"
    /\ err' = "TrainingError"
    /\ disk' = <<results>>
    /\ files' = files \cup {ResultsFile}
    /\ UNCHANGED << script, args, mainVars, og_config, n_concepts,
                    split, ei, vi, config, call, pending, results,
                    nLoad, nTrain, nStats, nDumps, trained >>

\* the training call raises: nothing in the scripts catches it
TrainRaise ==
    /\ pc = "training"
    /\ active' = active - 1
    /\ pc' = "raised"
    /\ err' = "TrainingError"
    /\ UNCHANGED << script, args, mainVars, og_config, n_concepts, files,
                    split, ei, vi, config, call, pending, results, disk,
                    nLoad, nTrain, nStats, nDumps, trained >>

\* variant: both models are recorded under the configuration they were
\* trained with
StatsConfig_Unrenamed == config

\* the config update_statistics is called with: the independent and the
\* sequential model are recorded under their own architecture names
StatsConfig ==
    IF call.fn = "train_independent_and_sequential_model"
    THEN SetKey(config, "architecture",
                IF pending = 2 THEN "IndependentConceptBottleneckModel"
                ELSE "SequentialConceptBottleneckModel")
    ELSE config

\* variant: the loop body is left one variant early
AfterStats_EarlyDump ==
    IF pending > 1 THEN "stats"
    ELSE IF vi < NumVariants(script) - 1 THEN "variant"
    ELSE "dump"

\* variant: the next variant starts after the first update_statistics
AfterStats_IgnorePending ==
    IF vi < NumVariants(script) THEN "variant" ELSE "dump"

\* where the script goes after an update_statistics call
AfterStats ==
    IF pending > 1 THEN "stats"
    ELSE IF vi < NumVariants(script) THEN "variant"
    ELSE "dump"

\* training.update_statistics(results[...], config, model, test_results)
UpdateStatistics ==
    /\ pc = "stats"
    /\ config' = StatsConfig
    /\ results' = WithCurrentEntry(update_statistics(CurrentEntry, config'))
    /\ pending' = pending - 1
    /\ nStats' = nStats + 1
    /\ vi' = IF AfterStats = "variant" THEN vi + 1 ELSE vi
    /\ pc' = AfterStats
    /\ UNCHANGED << script, args, err, mainVars, og_config, n_concepts,
                    files, split, ei, call, active, disk,
                    nLoad, nTrain, nDumps, trained >>

\* update_statistics raises
StatsRaise ==
    /\ pc = "stats"
    /\ config' = StatsConfig
    /\ pc' = "raised"
    /\ err' = "StatisticsError"
    /\ UNCHANGED << script, args, mainVars, og_config, n_concepts, files,
                    split, ei, vi, call, active, pending, results, disk,
                    nLoad, nTrain, nStats, nDumps, trained >>

\* joblib.dump(results, os.path.join(result_dir, 'results.joblib')), and
\* the step of the loop(s)
DumpResults ==
    /\ pc = "dump"
    /\ disk' = <<results>>
    /\ files' = files \cup {ResultsFile}
    /\ nDumps' = nDumps + 1
    /\ IF script = "ablation" /\ ei < Len(EmbSizes)
       THEN ei' = ei + 1 /\ split' = split
       ELSE ei' = 1 /\ split' = split + 1
    /\ pc' = "loop"
    /\ UNCHANGED << script, args, err, mainVars, og_config, n_concepts,
                    vi, config, call, active, pending, results,
                    nLoad, nTrain, nStats, trained >>

Next ==
    \/ CliRaise
    \/ CliCallMain
    \/ BuildConfig
    \/ GenerateData
    \/ SkipActivations
    \/ MakeActsDir
    \/ SaveActivations
    \/ InspectSample
    \/ MakeResultDir
    \/ MakeResultDirRaise
    \/ LoopHead
    \/ Return
    \/ InvokeTraining
    \/ TrainReturn
    \/ TrainRaise
    \/ UpdateStatistics
    \/ StatsRaise
    \/ DumpResults

Spec == Init /\ [][Next]_vars

---------------------------------------------------------------------------
(* Notions shared by the properties *)

\* main() has been called
MainCalled == data_module # ""

\* the value the command line supplies for key k: that of the last -p
\* option naming k
RECURSIVE Supplied(_, _)
Supplied(ps, k) ==
    IF ps[Len(ps)][1] = k THEN ps[Len(ps)][2]
    ELSE Supplied(SubSeq(ps, 1, Len(ps) - 1), k)

\* the keys the command line names
GivenKeys == {args.param[i][1] : i \in 1 .. Len(args.param)}

\* the keys the v-th variant assigns on its copy of the base configuration
AssignedKeys(s, v) ==
    LET kvs == VariantSettings(s, v, og_config, EmbSizes[ei], n_concepts)
    IN {kvs[i][1] : i \in 1 .. Len(kvs)}

\* a training call is in progress
InTraining == pc = "training"

---------------------------------------------------------------------------
(* C1 *)

\* C1: every data set name the 'dataset' argument accepts is dispatched to
\* a data module and a base config and reaches the call to main(); none
\* ends in an error before main() is called.  Stated for command lines that
\* give --output_dir, so that only the dispatch decides.
C1_EveryChoiceReachesMain ==
    (script = "train_cub" /\ args.output_dir # None /\ pc # "cli")
        => (MainCalled /\ err = "")

---------------------------------------------------------------------------
(* C2 *)

\* C2: without --output_dir, main() is called with result_dir equal to
\* 'results/' + dataset + '/'.  Stated for cub, the data set whose loader
\* module and base config are bound, so that only the default decides.
C2_DefaultResultDir ==
    (script = "train_cub" /\ args.dataset = "cub"
        /\ args.output_dir = None /\ pc # "cli")
        => (MainCalled /\ result_dir = "results/" \o args.dataset \o "/")

---------------------------------------------------------------------------
(* C3 *)

\* C3 as stated: for every key given with -p, the config of every training
\* call carries the value supplied on the command line, also for keys the
\* variant's setup assigns.
C3_ParamOverwritesEverything ==
    InTraining =>
        \A k \in GivenKeys : call.config[k] = Supplied(args.param, k)

\* C3 amended: a -p parameter overwrites the base configuration (also the
\* num_workers that --num_workers sets), and the config of a training call
\* carries the supplied value for every key the variant's setup does not
\* assign.
C3_ParamOverwritesBaseConfig ==
    /\ (MainCalled /\ pc # "main") =>
          \A k \in GivenKeys : og_config[k] = Supplied(args.param, k)
    /\ InTraining =>
          \A k \in GivenKeys \ AssignedKeys(script, vi) :
              call.config[k] = Supplied(args.param, k)

\* a training call whose config carries the num_workers given with -p and
\* not the one of --num_workers
C3_Witness ==
    /\ InTraining
    /\ "num_workers" \in GivenKeys
    /\ Supplied(args.param, "num_workers") # args.num_workers
    /\ call.config["num_workers"] = Supplied(args.param, "num_workers")

---------------------------------------------------------------------------
(* C4 *)

\* C4: every training call of the sweep receives the value of --rerun, and
\* the value main() holds never differs from it.
C4_RerunReachesEveryCall ==
    /\ MainCalled => rerun = args.rerun
    /\ call.fn # "none" => call.rerun = args.rerun

\* the independent/sequential training of a later split called with
\* rerun=True
C4_Witness ==
    /\ InTraining
    /\ call.fn = "train_independent_and_sequential_model"
    /\ split > 0
    /\ args.rerun
    /\ call.rerun

---------------------------------------------------------------------------
(* C5 *)

\* the test_embedding_acts directory and the six arrays
ActivationDumps ==
    {result_dir \o "test_embedding_acts/"}
        \cup {result_dir \o "test_embedding_acts/" \o a \o "_" \o d \o ".npy" :
                a \in {"x", "y", "c"}, d \in {"test", "val"}}

\* the script is past the block that dumps the activations
PastActivations ==
    \/ pc \in {"sample", "makedirs", "loop", "variant", "training",
               "stats", "dump", "returned"}
    \/ pc = "raised" /\ nLoad > 0

\* C5: the directory and the x/y/c arrays of the test and validation sets
\* are written if and only if result_dir is non-empty and activation_freq
\* is non-zero; with activation_freq = 0 none is created; and when they are
\* written, all of them exist before the first training call starts.
C5_ActivationDumpsOptional ==
    /\ (files \cap ActivationDumps # {})
          => (result_dir # "" /\ activation_freq # 0)
    /\ PastActivations =>
          ((ActivationDumps \subseteq files)
              <=> (result_dir # "" /\ activation_freq # 0))
    /\ activation_freq = 0 => files \cap ActivationDumps = {}
    /\ (nTrain > 0 /\ result_dir # "" /\ activation_freq # 0)
          => ActivationDumps \subseteq files

\* the first training call starts with the directory and the six arrays
\* on disk
C5_Witness ==
    /\ InTraining
    /\ nTrain = 1
    /\ activation_freq # 0
    /\ Cardinality(files \cap ActivationDumps) = 7

---------------------------------------------------------------------------
(* Units of the sweep: a split (train_cub) or a (split, emb_size) pair *)

EmbSizeSet == {EmbSizes[i] : i \in 1 .. Len(EmbSizes)}

\* the decimal strings of the split indices 0 .. cv-1
SplitKeys(cv) == {ToString(k) : k \in 0 .. cv - 1}

\* the units a results mapping holds: <<split key>> in train_cub,
\* <<emb_size, split key>> in the ablation
Units(r) ==
    IF script = "train_cub" THEN {<<k>> : k \in DOMAIN r}
    ELSE UNION {{<<e, k>> : k \in DOMAIN r[e]} : e \in DOMAIN r}

EntryOf(r, u) == IF script = "train_cub" THEN r[u[1]] ELSE r[u[1]][u[2]]

\* the unit of the current pass of the loop body
CurrentUnit ==
    IF script = "train_cub" THEN <<ToString(split)>>
    ELSE <<EmbSizes[ei], ToString(split)>>

\* the units whose pass of the loop body has ended
CompletedUnits ==
    IF script = "train_cub" THEN {<<ToString(k)>> : k \in 0 .. split - 1}
    ELSE {<<e, ToString(k)>> : e \in EmbSizeSet, k \in 0 .. split - 1}
           \cup {<<EmbSizes[j], ToString(split)>> : j \in 1 .. ei - 1}

\* statistics updates of one unit, as the claim counts them
UpdatesPerUnit == IF script = "train_cub" THEN 8 ELSE 3

\* the mapping in results.joblib, empty while this run has not written it
DiskMap == IF disk = <<>> THEN EmptyDict ELSE disk[1]

\* every entry of r has all its variants recorded
Complete(r) == \A u \in Units(r) : Len(EntryOf(r, u)) = UpdatesPerUnit

\* r holds exactly the units us, each as results holds it
HoldsExactly(r, us) ==
    /\ Units(r) = us
    /\ \A u \in us : EntryOf(r, u) = EntryOf(results, u)

---------------------------------------------------------------------------
(* C6 *)

\* at every point of the ablation: top-level keys are embedding sizes,
\* second-level keys are decimal strings of split indices in 0..cv-1
C6_KeysWellFormed ==
    \A e \in DOMAIN results :
        e \in EmbSizeSet /\ DOMAIN results[e] \subseteq SplitKeys(Cv)

\* C6 as stated: ... and when main() returns, results holds exactly the 8
\* embedding sizes, each with exactly the cv split keys.
C6_ResultsNesting ==
    script = "ablation" =>
        /\ C6_KeysWellFormed
        /\ pc = "returned" =>
              /\ DOMAIN results = EmbSizeSet
              /\ \A e \in EmbSizeSet : DOMAIN results[e] = SplitKeys(Cv)

\* C6 amended: ... when main() returns with cv >= 1, results holds exactly
\* the 8 embedding sizes, each with exactly the cv split keys; with cv = 0
\* it returns the empty mapping.
C6_ResultsNestingPositiveCv ==
    script = "ablation" =>
        /\ C6_KeysWellFormed
        /\ (pc = "returned" /\ Cv >= 1) =>
              /\ DOMAIN results = EmbSizeSet
              /\ Cardinality(DOMAIN results) = 8
              /\ \A e \in EmbSizeSet : DOMAIN results[e] = SplitKeys(Cv)
        /\ (pc = "returned" /\ Cv < 1) => results = EmptyDict

\* the ablation returns after five splits with all eight sizes filled
C6_Witness ==
    /\ script = "ablation"
    /\ pc = "returned"
    /\ Cv = 5
    /\ DOMAIN results = EmbSizeSet
    /\ DOMAIN results[64] = {"0", "1", "2", "3", "4"}

---------------------------------------------------------------------------
(* C7 *)

\* C7: results.joblib is rewritten once per unit (split, or (split,
\* emb_size) pair); each write holds the whole results mapping accumulated
\* so far; and at each write every entry of results has all its variants
\* recorded (8 statistics updates per split in train_cub.py, 3 per pair in
\* the ablation).
C7_WholesaleAfterEachUnit ==
    /\ nDumps = Cardinality(Units(DiskMap))
    /\ (MainCalled /\ pc \notin {"main", "load"}) =>
          nDumps = Cardinality(CompletedUnits)
    /\ pc = "dump" => Complete(results)
    /\ pc = "dump" => Units(results) = CompletedUnits \cup {CurrentUnit}
    /\ Complete(DiskMap)
    /\ (disk # <<>>) => HoldsExactly(DiskMap, CompletedUnits)
    /\ (pc = "loop" /\ disk # <<>>) => DiskMap = results
    /\ nStats >= UpdatesPerUnit * nDumps

\* the second write of train_cub.py has happened and holds two full splits
C7_Witness ==
    /\ script = "train_cub"
    /\ nDumps = 2
    /\ DOMAIN DiskMap = {"0", "1"}
    /\ Len(DiskMap["1"]) = 8

---------------------------------------------------------------------------
(* C8 *)

\* C8: the data loaders are generated exactly once, after the base config
\* is built and before any training call; at most one training call is in
\* progress; the statistics of a variant are recorded after its training
\* returns and before the next training starts; and a unit is serialized
\* after all its variants are recorded and before any training of the next
\* unit.
C8_SequentialSweep ==
    /\ nLoad <= 1
    /\ nLoad = 1 => og_config # EmptyDict
    /\ (nTrain > 0 \/ nStats > 0 \/ nDumps > 0) => nLoad = 1
    /\ active \in {0, 1}
    /\ active = 1 <=> pc = "training"
    /\ pending > 0 => (active = 0 /\ pc \in {"stats", "raised"})
    /\ InTraining => pending = 0
    /\ pc = "dump" => (pending = 0 /\ Len(CurrentEntry) = UpdatesPerUnit)
    /\ InTraining =>
          /\ CurrentUnit \in Units(results)
          /\ HoldsExactly(DiskMap, Units(results) \ {CurrentUnit})

\* a training call of a later split of train_cub.py, after the
\* independent/sequential pair of that split was recorded
C8_Witness ==
    /\ script = "train_cub"
    /\ InTraining
    /\ split = 1
    /\ vi = 7
    /\ Len(CurrentEntry) = 7
    /\ disk # <<>>

---------------------------------------------------------------------------
(* C9 *)

\* the exception of a training call or statistics update left main()
SweepFailed == pc = "raised" /\ err \in {"TrainingError", "StatisticsError"}

\* C9: when a training call or statistics update raises, the exception
\* leaves main() and nothing runs after it; results.joblib is the one
\* written at the end of the previous completed unit: it holds exactly the
\* units completed before the failure and nothing of the failing one, and
\* this run has written no file when the failure is in the first unit.
C9_FailureSurfaces ==
    SweepFailed =>
        /\ ~ ENABLED Next
        /\ active = 0
        /\ HoldsExactly(DiskMap, CompletedUnits)
        /\ Complete(DiskMap)
        /\ CurrentUnit \notin Units(DiskMap)
        /\ nDumps = Cardinality(CompletedUnits)
        /\ CompletedUnits = {} => (disk = <<>> /\ ResultsFile \notin files)
        /\ script = "train_cub" =>
              DOMAIN DiskMap = {ToString(k) : k \in 0 .. split - 1}

\* a training call of split 1 of train_cub.py raised with split 0 on disk
C9_Witness ==
    /\ SweepFailed
    /\ script = "train_cub"
    /\ err = "TrainingError"
    /\ split = 1
    /\ DOMAIN DiskMap = {"0"}

---------------------------------------------------------------------------
(* C10 *)

ExtraCapacityNames ==
    {"FuzzyExtraCapacity_Logit", "NoConceptSupervisionReLU_ExtraCapacity"}
        \cup {"FuzzyExtraCapacity_Logit_emb_size_" \o ToString(e) :
                e \in EmbSizeSet}
        \cup {"NoConceptSupervisionReLU_ExtraCapacity_emb_size_"
                \o ToString(e) : e \in EmbSizeSet}

\* the extra-capacity variants: extra_dims = (emb_size - 1) * n_concepts
\* for the emb_size of the embedding model recorded first in this pass
C10_ExtraCapacity ==
    (InTraining /\ call.config["extra_name"] \in ExtraCapacityNames) =>
        LET first == CurrentEntry[1]
            E == first.emb_size
            n == call.n_concepts
            x == call.config["extra_dims"]
        IN /\ first.architecture
                 \in {"ConceptEmbeddingModel", "MixtureEmbModel"}
           /\ x = (E - 1) * n
           /\ n + x = E * n
           /\ E >= 1 => (x >= 0 /\ (x = 0 <=> E = 1))

\* C10 as stated: ... and the Fuzzy and Bool variants are trained with
\* extra_dims equal to the base config's value.
C10_CapacityMatches ==
    /\ C10_ExtraCapacity
    /\ (InTraining /\ call.config["extra_name"] \in {"Fuzzy", "Bool"}) =>
          call.config["extra_dims"] = og_config["extra_dims"]

\* C10 amended: ... the Bool variant is trained with extra_dims equal to
\* the base config's value, the Fuzzy variant with extra_dims = 0, the base
\* config's default, whatever -p extra_dims sets.
C10_CapacityMatchesFuzzyZero ==
    /\ C10_ExtraCapacity
    /\ (InTraining /\ call.config["extra_name"] = "Bool") =>
          call.config["extra_dims"] = og_config["extra_dims"]
    /\ (InTraining /\ call.config["extra_name"] = "Fuzzy") =>
          call.config["extra_dims"] = 0

\* the vanilla extra-capacity model of train_cub.py, trained on two
\* concepts beside an embedding model of size 16
C10_Witness ==
    /\ script = "train_cub"
    /\ InTraining
    /\ call.config["extra_name"] = "NoConceptSupervisionReLU_ExtraCapacity"
    /\ CurrentEntry[1].emb_size = 16
    /\ call.n_concepts = 2
    /\ call.config["extra_dims"] = 30

---------------------------------------------------------------------------
(* C11 *)

\* the script has stopped, and no call into the training library raised
StoppedWithoutLibraryFailure ==
    /\ MainCalled
    /\ pc \in {"returned", "raised"}
    /\ err \notin {"TrainingError", "StatisticsError"}

\* a whole sweep of cv splits with t training calls per split in
\* train_cub.py: t*cv training calls, 8*cv statistics updates and cv writes
\* of results.joblib; 24*cv, 24*cv and 8*cv in the ablation; with cv = 0
\* nothing is trained or written and results is the empty mapping
CountsOfWholeSweep(t) ==
    /\ nTrain = (IF script = "train_cub" THEN t ELSE 24) * Cv
    /\ nStats = (IF script = "train_cub" THEN 8 ELSE 24) * Cv
    /\ nDumps = (IF script = "train_cub" THEN 1 ELSE 8) * Cv
    /\ Cv = 0 => (/\ nTrain = 0
                  /\ ResultsFile \notin files
                  /\ disk = <<>>
                  /\ results = EmptyDict)

\* wherever the script stands, its next statement can run: a call into
\* the training library can return, and the loop can go on or end
NeverStuck ==
    /\ pc = "cli" => ENABLED (CliRaise \/ CliCallMain)
    /\ pc = "main" => ENABLED BuildConfig
    /\ pc = "load" => ENABLED GenerateData
    /\ pc = "acts" => ENABLED (SkipActivations \/ MakeActsDir)
    /\ pc \in {"acts_test", "acts_val"} => ENABLED SaveActivations
    /\ pc = "sample" => ENABLED InspectSample
    /\ pc = "makedirs" => ENABLED (MakeResultDir \/ MakeResultDirRaise)
    /\ pc = "loop" => ENABLED (LoopHead \/ Return)
    /\ pc = "variant" => (/\ vi \in 1..NumVariants(script)
                          /\ ei \in 1..Len(EmbSizes)
                          /\ split \in 0..(Cv - 1))
    /\ pc = "training" => ENABLED TrainReturn
    /\ pc = "stats" => ENABLED UpdateStatistics
    /\ pc = "dump" => ENABLED DumpResults
    /\ pc \in {"cli", "main", "load", "acts", "acts_test", "acts_val",
               "sample", "makedirs", "loop", "variant", "training",
               "stats", "dump", "returned", "raised"}

\* C11 as stated, for the runs in which main() returns: train_cub.py has
\* made exactly 6*cv training calls (5 train_model plus 1
\* train_independent_and_sequential_model per split), 8*cv statistics
\* updates and cv writes; the ablation 24*cv, 24*cv and 8*cv.
C11_FixedStepCount == pc = "returned" => CountsOfWholeSweep(6)

\* C11 amended: train_cub.py makes 7*cv training calls (6 train_model plus
\* 1 train_independent_and_sequential_model per split).  With a non-empty
\* result_dir, a run in which every call into the training library returns
\* ends by main() returning, with exactly these counts, and no count ever
\* exceeds them; with an empty result_dir main() raises at os.makedirs
\* before the loop and nothing is trained or written.  The script never
\* stops anywhere else.
C11_FixedStepCountSeven ==
    /\ NeverStuck
    /\ (MainCalled /\ pc # "main") =>
          /\ nTrain <= (IF script = "train_cub" THEN 7 ELSE 24) * Cv
          /\ nStats <= (IF script = "train_cub" THEN 8 ELSE 24) * Cv
          /\ nDumps <= (IF script = "train_cub" THEN 1 ELSE 8) * Cv
    /\ (StoppedWithoutLibraryFailure /\ result_dir # "") =>
          (pc = "returned" /\ CountsOfWholeSweep(7))
    /\ (StoppedWithoutLibraryFailure /\ result_dir = "") =>
          /\ err = "FileNotFoundError"
          /\ nTrain = 0 /\ nStats = 0 /\ nDumps = 0
          /\ ResultsFile \notin files

\* train_cub.py returns from a sweep of the default five splits
C11_Witness ==
    /\ script = "train_cub"
    /\ pc = "returned"
    /\ Cv = 5
    /\ nTrain = 35
    /\ nStats = 40
    /\ nDumps = 5


---------------------------------------------------------------------------
(* C12 *)

\* the identities of the statistics recorded in the results mapping r
RecordedIdentities(r) ==
    UNION {{[architecture |-> EntryOf(r, u)[i].architecture,
             extra_name |-> EntryOf(r, u)[i].extra_name,
             split |-> u[Len(u)]] : i \in 1 .. Len(EntryOf(r, u))} :
           u \in Units(r)}

\* the names the ablation script gives its variants, before the
\* embedding size
AblationNames ==
    {"SharedProb_AdaptiveDropout_NoProbConcat", "FuzzyExtraCapacity_Logit",
     "NoConceptSupervisionReLU_ExtraCapacity"}

\* the names that carry the embedding size e
NamesWithEmbSize ==
    [e \in EmbSizeSet |->
        {a \o "_emb_size_" \o ToString(e) : a \in AblationNames}]

\* the extra_name x carries the embedding size e
CarriesEmbSize(x, e) == x \in NamesWithEmbSize[e]

\* the entry e records the models of train_independent_and_sequential_model
\* under their own architectures
RecordsIndSeq(e) ==
    /\ Len(e) >= 6 =>
          /\ e[6].architecture = "IndependentConceptBottleneckModel"
          /\ e[6].extra_name = ""
    /\ Len(e) >= 7 =>
          /\ e[7].architecture = "SequentialConceptBottleneckModel"
          /\ e[7].extra_name = ""

\* C12: over the whole run no two training invocations share their
\* (architecture, extra_name, split) triple, and no two statistics
\* updates do: there are as many different triples as invocations, and
\* as many different recorded triples as updates.  In train_cub.py the
\* call of train_independent_and_sequential_model is made with
\* architecture ConceptBottleneckModel and an empty extra_name, and its
\* two models are recorded as IndependentConceptBottleneckModel and
\* SequentialConceptBottleneckModel; in the ablation every trained and
\* every recorded extra_name carries the embedding size of its iteration.
C12_NoIdentityCollision ==
    MainCalled =>
        /\ Cardinality(trained) = nTrain
        /\ Cardinality(RecordedIdentities(results)) = nStats
        /\ (pc = "training"
              /\ call.fn = "train_independent_and_sequential_model") =>
              /\ script = "train_cub"
              /\ call.config["architecture"] = "ConceptBottleneckModel"
              /\ call.config["extra_name"] = ""
              /\ RunIdentity(call.config, split) \in trained
        /\ script = "train_cub" =>
              \A u \in Units(results) : RecordsIndSeq(EntryOf(results, u))
        /\ script = "ablation" =>
              /\ pc = "training" =>
                    CarriesEmbSize(call.config["extra_name"], EmbSizes[ei])
              /\ \A u \in Units(results) :
                    \A i \in 1 .. Len(EntryOf(results, u)) :
                        /\ u[1] = EntryOf(results, u)[i].emb_size
                        /\ CarriesEmbSize(EntryOf(results, u)[i].extra_name,
                                          u[1])

\* train_cub.py has returned from two splits: 14 training invocations and
\* 16 statistics updates, the independent and the sequential model of the
\* second split recorded under their own names
C12_Witness ==
    /\ script = "train_cub"
    /\ pc = "returned"
    /\ Cv = 2
    /\ Cardinality(trained) = 14
    /\ Cardinality(RecordedIdentities(results)) = 16
    /\ results["1"][6].architecture = "IndependentConceptBottleneckModel"
    /\ results["1"][7].architecture = "SequentialConceptBottleneckModel"

=============================================================================
